---- MODULE Spec2Model ----
(***************************************************************************)
(* TechnicalGauge (src/main.py): the dashboard's fetch / score / resolve   *)
(* cycle.  The state is the TradingDashboard object (its fields and the    *)
(* widgets it reads and writes), the DataFetchThread it starts, and the    *)
(* finished signals queued from the worker thread to the event thread.     *)
(*                                                                         *)
(* Prices and indicator values are floats in the program; here they are    *)
(* fixed-point numbers in tenths (Scale = 10), so 105.0 is 1050.           *)
(* A data frame is its length, its last row and the tail of its OBV        *)
(* column, the only parts update_signal_display reads.  A row field is a   *)
(* set: {} when the column is absent, {v} when it holds v.                 *)
(***************************************************************************)
EXTENDS Integers, Sequences, FiniteSets, TLC

VARIABLES
    ticker_input,       \* self.ticker_input.text()
    interval_box,       \* self.interval_box.currentText()
    period_box,         \* self.period_box.currentText()
    spins,              \* values of spin_s_buy, spin_buy, spin_sell, spin_s_sell
    auto_refresh_cb,    \* self.auto_refresh_cb.isChecked()
    refresh_timer,      \* self.refresh_timer.isActive()
    ui_timer,           \* self.ui_timer.isActive()
    countdown_val,      \* self.countdown_val
    countdown_lbl,      \* self.countdown_lbl text
    analyze_btn,        \* self.analyze_btn: enabled flag and text
    fetch_thread,       \* self.fetch_thread: None or the DataFetchThread object
    orphans,            \* running DataFetchThreads no field refers to any more
    pending,            \* finished signals emitted by workers, not yet delivered
    current_df,         \* self.current_df
    indicators_labels,  \* self.indicators_labels: name -> text and colour
    sig_lbl,            \* self.sig_lbl text and colour
    score_lbl,          \* self.score_lbl text
    log_box,            \* self.log_box text
    chart,              \* self.ax / self.canvas content
    warnings,           \* open modal QMessageBox.warning dialogs
    last_step,          \* history: what the last step was, where a claim asks
    probe               \* input and output of the Signal Resolver run alone

vars == <<ticker_input, interval_box, period_box, spins, auto_refresh_cb,
          refresh_timer, ui_timer, countdown_val, countdown_lbl, analyze_btn,
          fetch_thread, orphans, pending, current_df, indicators_labels,
          sig_lbl, score_lbl, log_box, chart, warnings, last_step, probe>>

\* Everything but the history variable and the resolver probe.
progVars == <<ticker_input, interval_box, period_box, spins, auto_refresh_cb,
              refresh_timer, ui_timer, countdown_val, countdown_lbl, analyze_btn,
              fetch_thread, orphans, pending, current_df, indicators_labels,
              sig_lbl, score_lbl, log_box, chart, warnings>>

-----------------------------------------------------------------------------
(* Program constants *)

DEFAULT_STRONG_BUY == 17
DEFAULT_BUY == 10
DEFAULT_SELL == 0 - 10
DEFAULT_STRONG_SELL == 0 - 17

MIN_BARS == 20          \* len(df) < 20 is rejected
MIN_ROWS == 5           \* update_signal_display returns when len < 5
COUNTDOWN_START == 60   \* countdown_val is reset to 60
CHART_WINDOW == 100     \* update_chart plots the last 100 rows
Scale == 10             \* fixed point: one unit is a tenth

(* Bounds of the model *)

MaxPending == 1         \* a fetch starts only with at most this many undelivered signals
MaxUiTicks == 1         \* countdown ticks followed after each reset of the countdown

None == [none |-> TRUE]

-----------------------------------------------------------------------------
(* Strings: str.strip and str.upper on the texts the ticker field takes *)

\* The texts the ticker field takes in the model: empty, or a symbol typed
\* in lower case with a trailing blank.
TickerTexts == {"", "aapl "}

Strip(s) ==
    CASE s = "aapl " -> "aapl"
      [] s = "AAPL " -> "AAPL"
      [] s = " "     -> ""
      [] OTHER       -> s

Upper(s) ==
    CASE s = "aapl"  -> "AAPL"
      [] s = "aapl " -> "AAPL "
      [] OTHER       -> s

\* f"{x:.1f}" of a value in tenths: sign, integer part, one decimal digit.
Fmt1(x) ==
    LET a == IF x < 0 THEN 0 - x ELSE x
    IN  [neg |-> x < 0, int |-> a \div Scale, dec |-> a % Scale]

-----------------------------------------------------------------------------
(* Data frames *)

Fields == {"Close", "EMA20", "ADX", "DMP", "DMN", "RSI", "MACD", "MACD_S",
           "BBL", "BBU", "STOCH_K", "WILLR", "PSAR"}

Has(row, f) == row[f] # {}
Val(row, f) == CHOOSE v \in row[f] : TRUE
\* curr.get(f, default)
Get(row, f, default) == IF Has(row, f) THEN Val(row, f) ELSE default

\* The spec's scenario: every indicator present, 250 bars.
RowFull ==
    [f \in Fields |->
        CASE f = "Close"   -> {1050}
          [] f = "EMA20"   -> {1000}
          [] f = "ADX"     -> {300}
          [] f = "DMP"     -> {250}
          [] f = "DMN"     -> {150}
          [] f = "RSI"     -> {250}
          [] f = "MACD"    -> {12}
          [] f = "MACD_S"  -> {8}
          [] f = "BBL"     -> {980}
          [] f = "BBU"     -> {1100}
          [] f = "STOCH_K" -> {150}
          [] f = "WILLR"   -> {0 - 805}
          [] f = "PSAR"    -> {1010}]

\* A 20-bar series for which the library gave no ADX, MACD, Stochastic RSI,
\* Williams %R, OBV and SAR columns.
RowMin ==
    [f \in Fields |->
        CASE f = "Close"   -> {900}
          [] f = "EMA20"   -> {950}
          [] f = "RSI"     -> {750}
          [] f = "BBL"     -> {800}
          [] f = "BBU"     -> {880}
          [] OTHER         -> {}]

FrameFull == [len |-> 250, row |-> RowFull, obv |-> <<10, 20, 30, 40, 50, 70>>]
FrameMin  == [len |-> 20, row |-> RowMin, obv |-> <<>>]

\* The Indicator Library is external: a bar series carries, besides its
\* length, what the library computes from it (ind), or Raises when the
\* library raises on it.
Raises == [raises |-> TRUE]
Bars(n, ind) == [len |-> n, ind |-> ind]
BarsEmpty == Bars(0, Raises)
BarsShort == Bars(19, FrameFull)
BarsMin   == Bars(20, FrameMin)
BarsFull  == Bars(250, FrameFull)
BarsBad   == Bars(30, Raises)

\* What yf.download can do: return None, return a bar series, or raise an
\* exception with a message (str(e), which may be empty).
Downloads ==
    { [kind |-> "df", df |-> b, msg |-> ""] :
          b \in {BarsEmpty, BarsShort, BarsMin, BarsFull, BarsBad} }
    \cup { [kind |-> "none", df |-> None, msg |-> ""] }
    \cup { [kind |-> "raise", df |-> None, msg |-> m] : m \in {"timeout", ""} }

\* the outcomes followed where one error and one result are enough
FewDownloads ==
    { [kind |-> "none", df |-> None, msg |-> ""],
      [kind |-> "df", df |-> BarsFull, msg |-> ""] }

\* calculate_indicators(df): raises on None (df.copy()) and where the
\* library raises; otherwise a frame as long as the bar series.
CanCompute(df) == df # None /\ df.ind # Raises
calculate_indicators(df) == [df.ind EXCEPT !.len = df.len]

-----------------------------------------------------------------------------
(* Score Aggregator and State Classifier: update_signal_display, 352-426 *)

Close(row) == Val(row, "Close")

TrendBullish(row) == Close(row) > Get(row, "EMA20", Close(row))
TrendPoints(row) == IF TrendBullish(row) THEN 10 ELSE 0 - 10

AdxStrong(row) == Has(row, "ADX") /\ Val(row, "ADX") > 25 * Scale
AdxPoints(row) ==
    IF AdxStrong(row)
    THEN IF Get(row, "DMP", 0) > Get(row, "DMN", 0) THEN 5 ELSE 0 - 5
    ELSE 0

Rsi(row) == Get(row, "RSI", 50 * Scale)
\* The RSI rule with the weight of the trend rule.
RsiPoints_ten(row) ==
    IF Rsi(row) < 300 THEN 10 ELSE IF Rsi(row) > 700 THEN 0 - 10 ELSE 0

RsiPoints(row) ==
    IF Rsi(row) < 30 * Scale THEN 15
    ELSE IF Rsi(row) > 70 * Scale THEN 0 - 15
    ELSE 0

MacdBullish(row) == Get(row, "MACD", 0) > Get(row, "MACD_S", 0)
MacdPoints(row) == IF MacdBullish(row) THEN 5 ELSE 0 - 5

BbLow(row) == Close(row) < Get(row, "BBL", Close(row))
BbHigh(row) == Close(row) > Get(row, "BBU", Close(row))
BbPoints(row) ==
    IF BbLow(row) THEN 10
    ELSE IF BbHigh(row) THEN 0 - 10
    ELSE 0

StochK(row) == Get(row, "STOCH_K", 50 * Scale)
StochPoints(row) ==
    IF StochK(row) < 20 * Scale THEN 5
    ELSE IF StochK(row) > 80 * Scale THEN 0 - 5
    ELSE 0

\* score after line 413; lines 415-426 add nothing to it
Score(row) ==
    TrendPoints(row) + AdxPoints(row) + RsiPoints(row) + MacdPoints(row)
        + BbPoints(row) + StochPoints(row)

Driver(text, val) == [text |-> text, val |-> val]

Reasons(row) ==
    (IF Rsi(row) < 30 * Scale THEN <<Driver("RSI Oversold", {Fmt1(Rsi(row))})>>
     ELSE IF Rsi(row) > 70 * Scale THEN <<Driver("RSI Overbought", {Fmt1(Rsi(row))})>>
     ELSE <<>>)
    \o
    (IF BbLow(row) THEN <<Driver("Price below Lower Band", {})>>
     ELSE IF BbHigh(row) THEN <<Driver("Price above Upper Band", {})>>
     ELSE <<>>)

\* 5 * (obv_ma.iloc[-1] - obv_ma.iloc[-2]) over the last six OBV values
ObvSlope5(obv) ==
    LET n == Len(obv)
    IN  (obv[n] + obv[n-1] + obv[n-2] + obv[n-3] + obv[n-4])
        - (obv[n-1] + obv[n-2] + obv[n-3] + obv[n-4] + obv[n-5])

\* A label text is a word or a formatted number.
Txt(s) == [s |-> s, num |-> {}]
Num(x) == [s |-> "", num |-> {Fmt1(x)}]
Status(text, color) == [text |-> text, color |-> color]
Green == "#4ade80"
Red == "#f87171"
Grey == "#94a3b8"

IndicatorNames == {"Trend (EMA/SMA)", "Trend Strength (ADX)", "Momentum (RSI)",
                   "MACD", "Stoch RSI", "Williams %R",
                   "Volatility (BB)", "Volume (OBV)", "Parabolic SAR"}

\* The label texts after the set_status calls of lines 359-426, from the
\* labels `old` shown before.
Classify(df, old) ==
    LET row == df.row
    IN  [k \in IndicatorNames |->
          CASE k = "Trend (EMA/SMA)" ->
                 IF TrendBullish(row) THEN Status(Txt("BULLISH"), Green)
                 ELSE Status(Txt("BEARISH"), Red)
            [] k = "Trend Strength (ADX)" ->
                 IF AdxStrong(row) THEN Status(Txt("STRONG"), "white")
                 ELSE Status(Txt("WEAK"), "white")
            [] k = "Momentum (RSI)" ->
                 IF Rsi(row) < 30 * Scale THEN Status(Txt("OVERSOLD"), Green)
                 ELSE IF Rsi(row) > 70 * Scale THEN Status(Txt("OVERBOUGHT"), Red)
                 ELSE Status(Txt("NEUTRAL"), Grey)
            [] k = "MACD" ->
                 IF MacdBullish(row) THEN Status(Txt("BULLISH"), Green)
                 ELSE Status(Txt("BEARISH"), Red)
            [] k = "Volatility (BB)" ->
                 IF BbLow(row) THEN Status(Txt("LOW BREAK"), Green)
                 ELSE IF BbHigh(row) THEN Status(Txt("HIGH BREAK"), Red)
                 ELSE Status(Txt("INSIDE"), Grey)
            [] k = "Stoch RSI" ->
                 IF StochK(row) < 20 * Scale THEN Status(Txt("OVERSOLD"), Green)
                 ELSE IF StochK(row) > 80 * Scale THEN Status(Txt("OVERBOUGHT"), Red)
                 ELSE Status(Txt("NEUTRAL"), Grey)
            [] k = "Williams %R" ->
                 Status(Num(Get(row, "WILLR", 0 - 50 * Scale)), "white")
            [] k = "Volume (OBV)" ->
                 IF df.obv # <<>>
                 THEN IF ObvSlope5(df.obv) > 0 THEN Status(Txt("ACCUMULATION"), Green)
                      ELSE Status(Txt("DISTRIBUTION"), Red)
                 ELSE old[k]
            [] k = "Parabolic SAR" ->
                 IF Has(row, "PSAR")
                 THEN IF Close(row) > Val(row, "PSAR") THEN Status(Txt("BULLISH"), Green)
                      ELSE Status(Txt("BEARISH"), Red)
                 ELSE old[k]]

-----------------------------------------------------------------------------
(* Signal Resolver: update_signal_display, 428-434 *)

\* The resolver with the two sell rules in the other order.
ResolveSignal_sell_first(score, s_buy, buy, sell, s_sell) ==
    IF score >= s_buy THEN Status("STRONG BUY", "#22c55e")
    ELSE IF score >= buy THEN Status("BUY", "#3b82f6")
    ELSE IF score <= sell THEN Status("SELL", "#f472b6")
    ELSE IF score <= s_sell THEN Status("STRONG SELL", "#ef4444")
    ELSE Status("HOLD", Grey)

ResolveSignal(score, s_buy, buy, sell, s_sell) ==
    IF score >= s_buy THEN Status("STRONG BUY", "#22c55e")
    ELSE IF score >= buy THEN Status("BUY", "#3b82f6")
    ELSE IF score <= s_sell THEN Status("STRONG SELL", "#ef4444")
    ELSE IF score <= sell THEN Status("SELL", "#f472b6")
    ELSE Status("HOLD", Grey)

Resolve(score, t) == ResolveSignal(score, t.s_buy, t.buy, t.sell, t.s_sell)

-----------------------------------------------------------------------------
(* Widgets *)

\* create_spin ranges, lines 134-137
SpinNames == {"s_buy", "buy", "sell", "s_sell"}
SpinMin(k) == CASE k = "s_buy" -> 10 [] k = "buy" -> 0
                [] k = "sell" -> 0 - 50 [] k = "s_sell" -> 0 - 100
SpinMax(k) == CASE k = "s_buy" -> 100 [] k = "buy" -> 50
                [] k = "sell" -> 0 [] k = "s_sell" -> 0 - 10

DefaultSpins == [s_buy |-> DEFAULT_STRONG_BUY, buy |-> DEFAULT_BUY,
                 sell |-> DEFAULT_SELL, s_sell |-> DEFAULT_STRONG_SELL]

\* The values the user sets in the model.
SpinChoices(k) ==
    CASE k = "s_buy"  -> {DEFAULT_STRONG_BUY, 45}
      [] k = "buy"    -> {DEFAULT_BUY}
      [] k = "sell"   -> {DEFAULT_SELL}
      [] k = "s_sell" -> {DEFAULT_STRONG_SELL}

Intervals == {"1d", "1m"}
Periods == {"1y", "1d"}

\* validate_period_compatibility: the period the box holds afterwards
validate_period_compatibility(interval, period) ==
    IF interval = "1m"
    THEN IF period \notin {"1d", "5d"} THEN "1d" ELSE period
    ELSE IF interval \in {"2m", "5m", "15m", "30m", "90m"}
    THEN IF period \notin {"1d", "5d", "1mo"} THEN "1mo" ELSE period
    ELSE IF interval = "60m" \/ interval = "1h"
    THEN IF period \in {"5y", "max"} THEN "2y" ELSE period
    ELSE period

\* "m" in interval_text or "h" in interval_text, over the items of interval_box
HasMOrH(interval) == interval \notin {"1d", "5d", "1wk"}

\* update_countdown: the new countdown_val
update_countdown(c) == IF c - 1 < 0 THEN COUNTDOWN_START ELSE c - 1

ButtonReady == [enabled |-> TRUE, text |-> "RUN ANALYSIS"]
ButtonBusy == [enabled |-> FALSE, text |-> "FETCHING..."]

NoLabel == Status(Txt("--"), "#64748b")
LogEmpty == [kind |-> "empty", msg |-> "", ticker |-> "", drivers |-> <<>>]
LogError(e) == [kind |-> "Error", msg |-> e, ticker |-> "", drivers |-> <<>>]
\* str(e) of the exception caught at line 309 is not modelled
LogMath == [kind |-> "Math Error", msg |-> "", ticker |-> "", drivers |-> <<>>]
LogAnalysis(text, reasons) ==
    [kind |-> "Analysis", msg |-> "", ticker |-> Upper(text), drivers |-> reasons]

ChartBlank == [state |-> "blank", ticker |-> "", interval |-> "", fmt |-> "",
               rows |-> 0, df |-> None]
\* ax.clear() done, an artist or the draw raised
ChartCleared == [ChartBlank EXCEPT !.state = "cleared"]
\* what update_chart(ticker) draws from the frame df: lines 447-470
ChartOf(df, ticker, interval) ==
    [state |-> "drawn", ticker |-> ticker, interval |-> interval,
     fmt |-> IF HasMOrH(interval) THEN "%H:%M" ELSE "%Y-%m-%d",
     rows |-> IF df.len > CHART_WINDOW THEN CHART_WINDOW ELSE df.len,
     df |-> df]

\* History: the step just taken was on_data_ready doing op with the signal
\* m (cfg: how m's cycle was requested and the configuration it started
\* under), or a request dropped by run_analysis because a fetch was running,
\* or anything else.
NoCfg == [silent |-> FALSE, thr |-> DefaultSpins, interval |-> "1d"]
Delivery(op, m) == [op |-> op, cfg |-> m.cfg]
Dropped(silent) == [op |-> "dropped", cfg |-> [NoCfg EXCEPT !.silent = silent]]
NoStep == [op |-> "none", cfg |-> NoCfg]

-----------------------------------------------------------------------------
(* The worker thread *)

\* A thread object whose run() has returned: only isRunning() is read again.
Finished == [finished |-> TRUE]

IsRunning(t) == t # None /\ t # Finished

\* DataFetchThread.__init__.  cfg is history: how the cycle was requested and
\* the thresholds in force when it started.
NewThread(ticker, period, interval, silent, thr) ==
    [ticker |-> Strip(Upper(ticker)), period |-> period, interval |-> interval,
     emitted |-> FALSE, cfg |-> [silent |-> silent, thr |-> thr]]

\* The finished signal DataFetchThread.run emits for what yf.download did.
Emitted(t, d) ==
    LET out ==
          IF d.kind = "raise" THEN [df |-> None, error |-> d.msg]
          ELSE IF d.kind = "none" \/ d.df.len = 0
          THEN [df |-> None,
                error |-> "No data found. Check ticker or internet connection."]
          ELSE IF d.df.len < MIN_BARS
          THEN [df |-> None, error |-> "Insufficient data history for analysis."]
          ELSE [df |-> d.df, error |-> ""]
    IN  [df |-> out.df, ticker |-> t.ticker, error |-> out.error,
         cfg |-> [silent |-> t.cfg.silent, thr |-> t.cfg.thr,
                  interval |-> t.interval]]

InFlight == (IF IsRunning(fetch_thread) THEN 1 ELSE 0) + Len(orphans)

-----------------------------------------------------------------------------
(* Handlers of the event thread *)

\* No modal dialog is open: the window takes user input.
Interactive == warnings = <<>>

\* What update_signal_display shows for current_df = df (a frame of at least
\* MIN_ROWS rows), the spin values thr and the ticker field holding text,
\* over the labels `old`.
Display(df, thr, text, old) ==
    [labels |-> Classify(df, old),
     sig    |-> Resolve(Score(df.row), thr),
     score  |-> [set |-> TRUE, val |-> Score(df.row)],
     log    |-> LogAnalysis(text, Reasons(df.row))]

\* update_signal_display
update_signal_display(df, thr, text) ==
    IF df = None \/ df.len < MIN_ROWS
    THEN UNCHANGED <<indicators_labels, sig_lbl, score_lbl, log_box>>
    ELSE LET d == Display(df, thr, text, indicators_labels)
         IN  /\ indicators_labels' = d.labels
             /\ sig_lbl' = d.sig
             /\ score_lbl' = d.score
             /\ log_box' = d.log

\* run_analysis without the isRunning() guard of lines 281-282.
run_analysis_unguarded(silent) ==
    IF Strip(ticker_input) = ""
    THEN /\ UNCHANGED <<analyze_btn, fetch_thread, orphans>>
         /\ last_step' = NoStep
    ELSE /\ last_step' = NoStep
         /\ analyze_btn' = IF silent THEN analyze_btn ELSE ButtonBusy
         /\ fetch_thread' = NewThread(Strip(ticker_input), period_box,
                                      interval_box, silent, spins)
         /\ orphans' = IF IsRunning(fetch_thread)
                       THEN Append(orphans, fetch_thread) ELSE orphans

\* run_analysis(silent): lines 277-293
run_analysis(silent) ==
    IF Strip(ticker_input) = ""
    THEN /\ UNCHANGED <<analyze_btn, fetch_thread, orphans>>
         /\ last_step' = NoStep
    ELSE IF IsRunning(fetch_thread)
    THEN /\ UNCHANGED <<analyze_btn, fetch_thread, orphans>>
         /\ last_step' = Dropped(silent)
    ELSE /\ last_step' = NoStep
         /\ analyze_btn' = IF silent THEN analyze_btn ELSE ButtonBusy
         /\ fetch_thread' = NewThread(Strip(ticker_input), period_box,
                                      interval_box, silent, spins)
         /\ orphans' = IF IsRunning(fetch_thread)
                       THEN Append(orphans, fetch_thread) ELSE orphans

\* A request that would start a fetch is followed only while fewer than
\* MaxPending signals wait for delivery.
WithinBound ==
    (Strip(ticker_input) # "" /\ ~IsRunning(fetch_thread)) => Len(pending) < MaxPending

SetTicker(t) ==
    /\ Interactive
    /\ t # ticker_input
    /\ ticker_input' = t
    /\ last_step' = NoStep
    /\ UNCHANGED <<interval_box, period_box, spins, auto_refresh_cb, refresh_timer,
                   ui_timer, countdown_val, countdown_lbl, analyze_btn, fetch_thread,
                   orphans, pending, current_df, indicators_labels, sig_lbl,
                   score_lbl, log_box, chart, warnings, probe>>

SetInterval(i) ==
    /\ Interactive
    /\ i # interval_box
    /\ interval_box' = i
    /\ period_box' = validate_period_compatibility(i, period_box)
    /\ last_step' = NoStep
    /\ UNCHANGED <<ticker_input, spins, auto_refresh_cb, refresh_timer,
                   ui_timer, countdown_val, countdown_lbl, analyze_btn, fetch_thread,
                   orphans, pending, current_df, indicators_labels, sig_lbl,
                   score_lbl, log_box, chart, warnings, probe>>

SetPeriod(p) ==
    /\ Interactive
    /\ p # period_box
    /\ period_box' = p
    /\ last_step' = NoStep
    /\ UNCHANGED <<ticker_input, interval_box, spins, auto_refresh_cb, refresh_timer,
                   ui_timer, countdown_val, countdown_lbl, analyze_btn, fetch_thread,
                   orphans, pending, current_df, indicators_labels, sig_lbl,
                   score_lbl, log_box, chart, warnings, probe>>

\* A spin box whose valueChanged is not connected.
SetThreshold_unconnected(k, v) ==
    /\ Interactive
    /\ v # spins[k]
    /\ SpinMin(k) <= v /\ v <= SpinMax(k)
    /\ spins' = [spins EXCEPT ![k] = v]
    /\ last_step' = NoStep
    /\ UNCHANGED <<ticker_input, interval_box, period_box, auto_refresh_cb,
                   refresh_timer, ui_timer, countdown_val, countdown_lbl, analyze_btn,
                   fetch_thread, orphans, pending, current_df, chart, warnings, probe,
                   indicators_labels, sig_lbl, score_lbl, log_box>>

\* spin.valueChanged -> update_signal_display
SetThreshold(k, v) ==
    /\ Interactive
    /\ v # spins[k]
    /\ SpinMin(k) <= v /\ v <= SpinMax(k)
    /\ spins' = [spins EXCEPT ![k] = v]
    /\ update_signal_display(current_df, spins', ticker_input)
    /\ last_step' = NoStep
    /\ UNCHANGED <<ticker_input, interval_box, period_box, auto_refresh_cb,
                   refresh_timer, ui_timer, countdown_val, countdown_lbl, analyze_btn,
                   fetch_thread, orphans, pending, current_df, chart, warnings, probe>>

\* analyze_btn.clicked -> run_analysis; a disabled button emits nothing
ClickAnalyze ==
    /\ Interactive
    /\ analyze_btn.enabled
    /\ WithinBound
    /\ run_analysis(FALSE)
    /\ UNCHANGED <<ticker_input, interval_box, period_box, spins, auto_refresh_cb,
                   refresh_timer, ui_timer, countdown_val, countdown_lbl, pending,
                   current_df, indicators_labels, sig_lbl, score_lbl, log_box,
                   chart, warnings, probe>>

\* ticker_input.returnPressed -> run_analysis
ReturnPressed ==
    /\ Interactive
    /\ WithinBound
    /\ run_analysis(FALSE)
    /\ UNCHANGED <<ticker_input, interval_box, period_box, spins, auto_refresh_cb,
                   refresh_timer, ui_timer, countdown_val, countdown_lbl, pending,
                   current_df, indicators_labels, sig_lbl, score_lbl, log_box,
                   chart, warnings, probe>>

\* auto_refresh_cb.toggled -> toggle_autorefresh, box now checked
ToggleOn ==
    /\ Interactive
    /\ ~auto_refresh_cb
    /\ WithinBound
    /\ auto_refresh_cb' = TRUE
    /\ refresh_timer' = TRUE
    /\ ui_timer' = TRUE
    /\ countdown_val' = update_countdown(COUNTDOWN_START)
    /\ countdown_lbl' = [off |-> FALSE, n |-> countdown_val']
    /\ run_analysis(FALSE)
    /\ UNCHANGED <<ticker_input, interval_box, period_box, spins, pending,
                   current_df, indicators_labels, sig_lbl, score_lbl, log_box,
                   chart, warnings, probe>>

\* toggle_autorefresh that also gives up the running fetch.
ToggleOff_cancelling ==
    /\ Interactive
    /\ auto_refresh_cb
    /\ auto_refresh_cb' = FALSE
    /\ refresh_timer' = FALSE
    /\ ui_timer' = FALSE
    /\ countdown_lbl' = [off |-> TRUE, n |-> 0]
    /\ fetch_thread' = IF IsRunning(fetch_thread) THEN Finished ELSE fetch_thread
    /\ pending' = <<>>
    /\ analyze_btn' = ButtonReady
    /\ last_step' = NoStep
    /\ UNCHANGED <<ticker_input, interval_box, period_box, spins, countdown_val,
                   orphans, current_df, indicators_labels, sig_lbl, score_lbl,
                   log_box, chart, warnings, probe>>

\* auto_refresh_cb.toggled -> toggle_autorefresh, box now unchecked
ToggleOff ==
    /\ Interactive
    /\ auto_refresh_cb
    /\ auto_refresh_cb' = FALSE
    /\ refresh_timer' = FALSE
    /\ ui_timer' = FALSE
    /\ countdown_lbl' = [off |-> TRUE, n |-> 0]
    /\ last_step' = NoStep
    /\ UNCHANGED <<ticker_input, interval_box, period_box, spins, countdown_val,
                   analyze_btn, fetch_thread, orphans, pending, current_df,
                   indicators_labels, sig_lbl, score_lbl, log_box, chart, warnings,
                   probe>>

\* refresh_timer.timeout -> run_analysis_silent
RefreshTimeout ==
    /\ refresh_timer
    /\ WithinBound
    /\ countdown_val' = COUNTDOWN_START
    /\ run_analysis(TRUE)
    /\ UNCHANGED <<ticker_input, interval_box, period_box, spins, auto_refresh_cb,
                   refresh_timer, ui_timer, countdown_lbl, pending, current_df,
                   indicators_labels, sig_lbl, score_lbl, log_box, chart, warnings,
                   probe>>

\* ui_timer.timeout -> update_countdown
UiTimeout ==
    /\ ui_timer
    /\ COUNTDOWN_START - countdown_val < MaxUiTicks
    /\ countdown_val' = update_countdown(countdown_val)
    /\ countdown_lbl' = [off |-> FALSE, n |-> countdown_val']
    /\ last_step' = NoStep
    /\ UNCHANGED <<ticker_input, interval_box, period_box, spins, auto_refresh_cb,
                   refresh_timer, ui_timer, analyze_btn, fetch_thread, orphans,
                   pending, current_df, indicators_labels, sig_lbl, score_lbl,
                   log_box, chart, warnings, probe>>

\* DataFetchThread.run up to its emit: the download ends as d
ThreadEmit(d) ==
    /\ IsRunning(fetch_thread)
    /\ ~fetch_thread.emitted
    /\ pending' = Append(pending, Emitted(fetch_thread, d))
    /\ fetch_thread' = [fetch_thread EXCEPT !.emitted = TRUE]
    /\ last_step' = NoStep
    /\ UNCHANGED <<ticker_input, interval_box, period_box, spins, auto_refresh_cb,
                   refresh_timer, ui_timer, countdown_val, countdown_lbl, analyze_btn,
                   orphans, current_df, indicators_labels, sig_lbl, score_lbl,
                   log_box, chart, warnings, probe>>

\* DataFetchThread.run returns: isRunning() is false from here on
ThreadExit ==
    /\ IsRunning(fetch_thread)
    /\ fetch_thread.emitted
    /\ fetch_thread' = Finished
    /\ last_step' = NoStep
    /\ UNCHANGED <<ticker_input, interval_box, period_box, spins, auto_refresh_cb,
                   refresh_timer, ui_timer, countdown_val, countdown_lbl, analyze_btn,
                   orphans, pending, current_df, indicators_labels, sig_lbl,
                   score_lbl, log_box, chart, warnings, probe>>

\* update_chart titled from the ticker field instead of its argument.
update_chart_field_title(df, ticker) ==
    ChartOf(df, Strip(Upper(ticker_input)), interval_box)

\* update_chart(ticker) with self.current_df = df
update_chart(df, ticker) == ChartOf(df, ticker, interval_box)

\* The error path deciding on the dialog by how the cycle was requested.
on_error_by_request(m) ==
    /\ log_box' = LogError(m.error)
    /\ warnings' = IF ~m.cfg.silent THEN Append(warnings, m.error) ELSE warnings
    /\ last_step' = Delivery("data_error", m)
    /\ UNCHANGED <<current_df, indicators_labels, sig_lbl, score_lbl, chart>>

\* on_data_ready, lines 299-303: the signal m carries an error text
on_error(m) ==
    /\ log_box' = LogError(m.error)
    /\ warnings' = IF ~auto_refresh_cb THEN Append(warnings, m.error) ELSE warnings
    /\ last_step' = Delivery("data_error", m)
    /\ UNCHANGED <<current_df, indicators_labels, sig_lbl, score_lbl, chart>>

\* on_data_ready, lines 305-311: the try block; chart_ok is whether
\* update_chart gets through
on_result(m, chart_ok) ==
    IF ~CanCompute(m.df)
    THEN /\ log_box' = LogMath
         /\ last_step' = Delivery("math_error", m)
         /\ UNCHANGED <<current_df, indicators_labels, sig_lbl, score_lbl, chart,
                        warnings>>
    ELSE /\ current_df' = calculate_indicators(m.df)
         /\ IF chart_ok
            THEN /\ update_signal_display(current_df', spins, ticker_input)
                 /\ chart' = update_chart(current_df', m.ticker)
                 /\ last_step' = Delivery("data_ok", m)
            ELSE LET d == Display(current_df', spins, ticker_input, indicators_labels)
                 IN  /\ indicators_labels' = d.labels
                     /\ sig_lbl' = d.sig
                     /\ score_lbl' = d.score
                     /\ log_box' = LogMath
                 /\ chart' = ChartCleared
                 /\ last_step' = Delivery("chart_error", m)
         /\ UNCHANGED warnings

\* on_data_ready that stops the refresh timer after a fetch error.
OnDataReady_stopping_timer ==
    /\ pending # <<>>
    /\ pending' = Tail(pending)
    /\ analyze_btn' = ButtonReady
    /\ IF Head(pending).error # ""
       THEN /\ on_error(Head(pending))
            /\ refresh_timer' = FALSE
            /\ ui_timer' = FALSE
       ELSE /\ \E chart_ok \in BOOLEAN : on_result(Head(pending), chart_ok)
            /\ UNCHANGED <<refresh_timer, ui_timer>>
    /\ UNCHANGED <<ticker_input, interval_box, period_box, spins, auto_refresh_cb,
                   countdown_val, countdown_lbl, fetch_thread, orphans, probe>>

\* the queued finished signal reaches on_data_ready
OnDataReady ==
    /\ pending # <<>>
    /\ pending' = Tail(pending)
    /\ analyze_btn' = ButtonReady
    /\ IF Head(pending).error # ""
       THEN on_error(Head(pending))
       ELSE \E chart_ok \in BOOLEAN : on_result(Head(pending), chart_ok)
    /\ UNCHANGED <<ticker_input, interval_box, period_box, spins, auto_refresh_cb,
                   refresh_timer, ui_timer, countdown_val, countdown_lbl,
                   fetch_thread, orphans, probe>>

\* the user closes the topmost warning dialog; on_data_ready then returns
DismissWarning ==
    /\ warnings # <<>>
    /\ warnings' = SubSeq(warnings, 1, Len(warnings) - 1)
    /\ last_step' = NoStep
    /\ UNCHANGED <<ticker_input, interval_box, period_box, spins, auto_refresh_cb,
                   refresh_timer, ui_timer, countdown_val, countdown_lbl, analyze_btn,
                   fetch_thread, orphans, pending, current_df, indicators_labels,
                   sig_lbl, score_lbl, log_box, chart, probe>>

-----------------------------------------------------------------------------
(* TradingDashboard.__init__ and setup_ui *)

NoProbe == [score |-> 0, done |-> FALSE, sig |-> Status("READY", "")]

\* The state after construction, but for the named parts.
InitWith(text, thr, thread, btn, queue, pr) ==
    /\ ticker_input = text
    /\ interval_box = "1d"
    /\ period_box = "1y"
    /\ spins = thr
    /\ auto_refresh_cb = FALSE
    /\ refresh_timer = FALSE
    /\ ui_timer = FALSE
    /\ countdown_val = COUNTDOWN_START
    /\ countdown_lbl = [off |-> TRUE, n |-> 0]
    /\ analyze_btn = btn
    /\ fetch_thread = thread
    /\ orphans = <<>>
    /\ pending = queue
    /\ current_df = None
    /\ indicators_labels = [k \in IndicatorNames |-> NoLabel]
    /\ sig_lbl = Status("READY", "")
    /\ score_lbl = [set |-> FALSE, val |-> 0]
    /\ log_box = LogEmpty
    /\ chart = ChartBlank
    /\ warnings = <<>>
    /\ last_step = NoStep
    /\ probe = pr

Init == InitWith("", DefaultSpins, None, ButtonReady, <<>>, NoProbe)

\* The request cycle: requests by hand and by timer, the worker, delivery.
Next ==
    \/ \E t \in TickerTexts : SetTicker(t)
    \/ ClickAnalyze
    \/ ReturnPressed
    \/ ToggleOn
    \/ ToggleOff
    \/ RefreshTimeout
    \/ UiTimeout
    \/ \E d \in Downloads : ThreadEmit(d)
    \/ ThreadExit
    \/ OnDataReady
    \/ DismissWarning

Spec == Init /\ [][Next]_vars

\* The configuration: thresholds and request parameters change around
\* cycles requested by hand.
NextConfig ==
    \/ \E t \in TickerTexts : SetTicker(t)
    \/ \E i \in Intervals : SetInterval(i)
    \/ \E p \in Periods : SetPeriod(p)
    \/ \E k \in SpinNames : \E v \in SpinChoices(k) : SetThreshold(k, v)
    \/ ClickAnalyze
    \/ ReturnPressed
    \/ \E d \in FewDownloads : ThreadEmit(d)
    \/ ThreadExit
    \/ OnDataReady
    \/ DismissWarning

SpecConfig == Init /\ [][NextConfig]_vars

-----------------------------------------------------------------------------
(* The Signal Resolver alone: any score against any thresholds the spin     *)
(* boxes can hold.                                                          *)

MaxProbeScore == 55

ProbeThresholds ==
    [s_buy : {10, DEFAULT_STRONG_BUY, 45}, buy : {0, DEFAULT_BUY, 50},
     sell : {0 - 50, DEFAULT_SELL, 0}, s_sell : {0 - 45, DEFAULT_STRONG_SELL, 0 - 10}]

InitResolver ==
    \E thr \in ProbeThresholds : \E sc \in (0 - MaxProbeScore) .. MaxProbeScore :
        InitWith("", thr, None, ButtonReady, <<>>,
                 [score |-> sc, done |-> FALSE, sig |-> Status("READY", "")])

\* lines 428-434 run on the probe score
ResolveProbe ==
    /\ ~probe.done
    /\ probe' = [probe EXCEPT !.done = TRUE,
                              !.sig = Resolve(probe.score, spins)]
    /\ UNCHANGED <<ticker_input, interval_box, period_box, spins, auto_refresh_cb,
                   refresh_timer, ui_timer, countdown_val, countdown_lbl, analyze_btn,
                   fetch_thread, orphans, pending, current_df, indicators_labels,
                   sig_lbl, score_lbl, log_box, chart, warnings, last_step>>

NextResolver == ResolveProbe

SpecResolver == InitResolver /\ [][NextResolver]_vars

(* The Score Aggregator over many last rows: a fetched series, whose frame  *)
(* is any of ProbeFrames, waits for delivery.                               *)

ProbeRows ==
    [Close : {{1000}, {1050}}, EMA20 : {{}, {1000}},
     ADX : {{}, {250}, {300}}, DMP : {{}, {250}}, DMN : {{}, {150}},
     RSI : {{}, {250}, {300}, {700}, {750}},
     MACD : {{}, {12}, {0 - 5}}, MACD_S : {{}, {8}},
     BBL : {{}, {980}, {1020}}, BBU : {{}, {1100}, {1010}},
     STOCH_K : {{}, {150}, {200}, {850}},
     WILLR : {{0 - 805}}, PSAR : {{1010}}]

ProbeFrames == { [len |-> 250, row |-> r, obv |-> <<10, 20, 30, 40, 50, 70>>] :
                   r \in ProbeRows }

InitScore ==
    \E f \in ProbeFrames :
        InitWith("aapl ", DefaultSpins, Finished, ButtonBusy,
                 <<[df |-> Bars(f.len, f), ticker |-> "AAPL", error |-> "",
                    cfg |-> [silent |-> FALSE, thr |-> DefaultSpins,
                             interval |-> "1d"]]>>,
                 NoProbe)

NextScore == OnDataReady

SpecScore == InitScore /\ [][NextScore]_vars

-----------------------------------------------------------------------------
(* Claims *)

SignalNames == {"STRONG BUY", "BUY", "STRONG SELL", "SELL", "HOLD"}

\* C1: for every score and every threshold tuple, also overlapping or
\* misordered ones, the resolver gives exactly one of the five signals, the
\* one of the first rule that matches in the order strong buy, buy, strong
\* sell, sell, hold; -18 against 17/10/-10/-17 gives STRONG SELL.
C1_ResolverPriority ==
    probe.done =>
        LET s == probe.score
            t == spins
            sig == probe.sig.text
        IN  /\ sig \in SignalNames
            /\ (s >= t.s_buy) => sig = "STRONG BUY"
            /\ (s < t.s_buy /\ s >= t.buy) => sig = "BUY"
            /\ (s < t.s_buy /\ s < t.buy /\ s <= t.s_sell) => sig = "STRONG SELL"
            /\ (s < t.s_buy /\ s < t.buy /\ s > t.s_sell /\ s <= t.sell) => sig = "SELL"
            /\ (s < t.s_buy /\ s < t.buy /\ s > t.s_sell /\ s > t.sell) => sig = "HOLD"
            /\ (s = 0 - 18 /\ t = DefaultSpins) => sig = "STRONG SELL"

\* -18 resolved against the defaults
C1_Witness ==
    /\ probe.done
    /\ probe.score = 0 - 18
    /\ spins = DefaultSpins
    /\ probe.sig.text = "STRONG SELL"

\* The point table of the specification, row by row, with its fallbacks.
TableField(row, f, fallback) == IF row[f] = {} THEN fallback ELSE Val(row, f)
PointTable(row) ==
    LET C == Val(row, "Close")
        ema   == IF C > TableField(row, "EMA20", C) THEN 10 ELSE 0 - 10
        adx   == IF row["ADX"] # {} /\ Val(row, "ADX") > 250
                 THEN IF TableField(row, "DMP", 0) > TableField(row, "DMN", 0)
                      THEN 5 ELSE 0 - 5
                 ELSE 0
        rsi   == IF TableField(row, "RSI", 500) < 300 THEN 15
                 ELSE IF TableField(row, "RSI", 500) > 700 THEN 0 - 15 ELSE 0
        macd  == IF TableField(row, "MACD", 0) > TableField(row, "MACD_S", 0)
                 THEN 5 ELSE 0 - 5
        bb    == IF C < TableField(row, "BBL", C) THEN 10
                 ELSE IF C > TableField(row, "BBU", C) THEN 0 - 10 ELSE 0
        stoch == IF TableField(row, "STOCH_K", 500) < 200 THEN 5
                 ELSE IF TableField(row, "STOCH_K", 500) > 800 THEN 0 - 5 ELSE 0
    IN  ema + adx + rsi + macd + bb + stoch

-----------------------------------------------------------------------------
(* Claims about the request cycle *)

\* what a cycle may not touch, and what shows a result
ConfigVars == <<ticker_input, interval_box, period_box, spins>>
CycleVars == <<analyze_btn, fetch_thread, orphans, pending, current_df,
               indicators_labels, sig_lbl, score_lbl, log_box, chart, warnings>>

\* C3 as stated: at most one fetch is in flight, and a request (click,
\* Enter, timer tick, auto-refresh switched on) that arrives while a fetch is
\* running starts none, queues none and changes no state at all (for the
\* toggle: none but the auto-refresh switch itself, its timers and countdown).
C3_DroppedRequestChangesNothing ==
    /\ [](InFlight <= 1)
    /\ [][ IsRunning(fetch_thread) =>
             /\ (ClickAnalyze \/ ReturnPressed \/ RefreshTimeout)
                    => UNCHANGED progVars
             /\ ToggleOn => UNCHANGED <<ConfigVars, CycleVars>> ]_vars

\* C3 as amended: at most one fetch is in flight; a request that arrives
\* while a fetch is running starts none and queues none; a click or Enter
\* then changes no state, a timer tick changes only the countdown value
\* (reset to its start), and switching auto-refresh on changes only the check
\* box, the two timers and the countdown.
C3_SingleFetchInFlight ==
    /\ [](InFlight <= 1)
    /\ [][ IsRunning(fetch_thread) =>
             /\ (ClickAnalyze \/ ReturnPressed) => UNCHANGED progVars
             /\ RefreshTimeout
                    => /\ countdown_val' = COUNTDOWN_START
                       /\ UNCHANGED <<ConfigVars, CycleVars, auto_refresh_cb,
                                      refresh_timer, ui_timer, countdown_lbl>>
             /\ ToggleOn
                    => /\ auto_refresh_cb' /\ refresh_timer' /\ ui_timer'
                       /\ UNCHANGED <<ConfigVars, CycleVars>> ]_vars

\* a request was just dropped while the one fetch runs on
C3_Witness ==
    /\ last_step.op = "dropped"
    /\ IsRunning(fetch_thread)
    /\ InFlight = 1

NoDataText == "No data found. Check ticker or internet connection."
ShortText == "Insufficient data history for analysis."

\* the driver list the window shows, if it shows one
ExposedDrivers == IF log_box.kind = "Analysis" THEN {log_box.drivers} ELSE {}

\* C4 as stated: a download of no data or of fewer than MIN_BARS bars (19
\* rejected, 20 accepted) comes back as an error with no frame; its delivery
\* reports the error and leaves frame, score, signal, indicator states,
\* chart and the shown driver list as they were.
C4_ErrorKeepsResult ==
    /\ [][ \A d \in Downloads :
             (ThreadEmit(d) /\ d.kind = "df") =>
                 LET m == pending'[Len(pending')]
                 IN  /\ (m.error = "") <=> (d.df.len >= 20)
                     /\ (d.df.len < 20) => m.df = None ]_vars
    /\ [][ (pending # <<>> /\ Head(pending).error \in {NoDataText, ShortText}
            /\ OnDataReady) =>
               /\ log_box'.kind = "Error" \/ log_box' = log_box
               /\ UNCHANGED <<current_df, score_lbl, sig_lbl, indicators_labels, chart>>
               /\ ExposedDrivers' = ExposedDrivers ]_vars

\* C5 as stated: an error is logged, and a blocking notification opens
\* exactly when the cycle was requested by hand.
C5_ByRequestKind ==
    [][ (pending # <<>> /\ Head(pending).error # "" /\ OnDataReady) =>
            /\ log_box' = LogError(Head(pending).error)
            /\ (Len(warnings') = Len(warnings) + 1) <=> ~Head(pending).cfg.silent ]_vars

\* C5 as amended: an error (a non-empty error text) is always written to the
\* log area, and a blocking notification with that text opens exactly when
\* auto-refresh is unchecked at the moment the result arrives, however the
\* cycle was requested.
C5_ByAutoRefreshMode ==
    [][ (pending # <<>> /\ Head(pending).error # "" /\ OnDataReady) =>
            /\ log_box' = LogError(Head(pending).error)
            /\ IF auto_refresh_cb
               THEN warnings' = warnings
               ELSE warnings' = Append(warnings, Head(pending).error) ]_vars

\* a cycle requested by hand just failed under auto-refresh: logged, no dialog
C5_Witness ==
    /\ last_step.op = "data_error"
    /\ ~last_step.cfg.silent
    /\ auto_refresh_cb
    /\ log_box.kind = "Error"
    /\ warnings = <<>>

\* C6: the refresh timer is active exactly while auto-refresh is checked; no
\* delivery, whatever its outcome (fetch error, compute error, chart error,
\* success), stops it or opens a dialog over it; and a tick with no fetch
\* running and a non-empty symbol starts a new timer-driven fetch.
C6_TimerSurvivesOutcomes ==
    /\ [](refresh_timer <=> auto_refresh_cb)
    /\ [](warnings # <<>> => ~refresh_timer)
    /\ [][ OnDataReady => UNCHANGED <<refresh_timer, ui_timer, auto_refresh_cb>> ]_vars
    /\ [][ (RefreshTimeout /\ ~IsRunning(fetch_thread) /\ Strip(ticker_input) # "") =>
               /\ IsRunning(fetch_thread')
               /\ fetch_thread'.cfg.silent
               /\ ~fetch_thread'.emitted ]_vars

\* an earlier cycle's error is in the log and a tick has started the next fetch
C6_Witness ==
    /\ log_box.kind \in {"Error", "Math Error"}
    /\ refresh_timer
    /\ IsRunning(fetch_thread)
    /\ fetch_thread.cfg.silent
    /\ ~fetch_thread.emitted
    /\ pending = <<>>

\* C7: switching auto-refresh off stops the refresh timer, so no timer-driven
\* cycle starts afterwards, and leaves the running thread and the queued
\* signals alone; a signal that carries a frame the library can compute is
\* applied as the live frame whether auto-refresh is on or off.
C7_ToggleOffKeepsFetch ==
    /\ [][ ToggleOff => (~refresh_timer' /\ UNCHANGED <<fetch_thread, orphans, pending>>) ]_vars
    /\ [][ (~IsRunning(fetch_thread) /\ IsRunning(fetch_thread')
            /\ fetch_thread'.cfg.silent) => auto_refresh_cb ]_vars
    /\ [][ (pending # <<>> /\ Head(pending).error = "" /\ CanCompute(Head(pending).df)
            /\ OnDataReady) =>
               /\ current_df' = calculate_indicators(Head(pending).df)
               /\ score_lbl' = [set |-> TRUE, val |-> Score(current_df'.row)] ]_vars

\* a timer-started cycle was just applied with auto-refresh off
C7_Witness ==
    /\ last_step.op = "data_ok"
    /\ last_step.cfg.silent
    /\ ~auto_refresh_cb
    /\ ~refresh_timer
    /\ current_df # None
    /\ chart.state = "drawn"

\* C8: whenever a result is live the shown score is that of the live frame
\* and the shown signal is the resolver's answer for it under the current
\* thresholds; with no result yet the display is as constructed, whatever
\* the thresholds were changed to.
C8_SignalFollowsThresholds ==
    IF current_df # None
    THEN /\ score_lbl = [set |-> TRUE, val |-> Score(current_df.row)]
         /\ sig_lbl = Resolve(score_lbl.val, spins)
    ELSE /\ score_lbl = [set |-> FALSE, val |-> 0]
         /\ sig_lbl = Status("READY", "")
         /\ indicators_labels = [k \in IndicatorNames |-> NoLabel]
         /\ log_box.kind \in {"empty", "Error", "Math Error"}

\* the strong-buy threshold was raised over the live score: BUY
C8_Witness ==
    /\ current_df # None
    /\ score_lbl.val = 40
    /\ spins.s_buy = 45
    /\ spins.buy = DEFAULT_BUY
    /\ sig_lbl.text = "BUY"

CycleStep ==
    \/ ClickAnalyze
    \/ ReturnPressed
    \/ \E d \in Downloads : ThreadEmit(d)
    \/ ThreadExit
    \/ OnDataReady

\* C9 as stated: a cycle writes neither thresholds nor request parameters,
\* and a published result is resolved and labelled with the values in force
\* when its cycle started.
C9_ConfigReadAtStart ==
    /\ [][ CycleStep => UNCHANGED ConfigVars ]_vars
    /\ [][ (OnDataReady /\ last_step'.op = "data_ok") =>
               LET m == Head(pending)
               IN  /\ sig_lbl' = Resolve(score_lbl'.val, m.cfg.thr)
                   /\ chart'.ticker = m.ticker
                   /\ chart'.interval = m.cfg.interval
                   /\ Strip(log_box'.ticker) = m.ticker ]_vars

\* C9 as amended: a cycle writes neither thresholds nor request parameters;
\* symbol, period and interval of the fetch are read when the cycle starts
\* and the chart title carries that symbol; but the thresholds that resolve
\* the signal, the interval in the chart title and the symbol in the log
\* header are read when the result is applied.
C9_ConfigReadAtStartOrDelivery ==
    /\ [][ CycleStep => UNCHANGED ConfigVars ]_vars
    /\ [][ (~IsRunning(fetch_thread) /\ IsRunning(fetch_thread')) =>
               /\ fetch_thread'.ticker = Strip(Upper(Strip(ticker_input)))
               /\ fetch_thread'.period = period_box
               /\ fetch_thread'.interval = interval_box ]_vars
    /\ [][ \A d \in Downloads :
               ThreadEmit(d) => pending'[Len(pending')].ticker = fetch_thread.ticker ]_vars
    /\ [][ (OnDataReady /\ last_step'.op = "data_ok") =>
               LET m == Head(pending)
               IN  /\ sig_lbl' = Resolve(score_lbl'.val, spins)
                   /\ chart'.ticker = m.ticker
                   /\ chart'.interval = interval_box
                   /\ log_box'.ticker = Upper(ticker_input) ]_vars

\* a result was just applied after thresholds, interval and symbol changed
\* during its fetch
C9_Witness ==
    /\ last_step.op = "data_ok"
    /\ last_step.cfg.thr # spins
    /\ last_step.cfg.interval # interval_box
    /\ sig_lbl = Resolve(score_lbl.val, spins)
    /\ sig_lbl # Resolve(score_lbl.val, last_step.cfg.thr)
    /\ chart.interval = interval_box
    /\ Strip(log_box.ticker) # chart.ticker

\* C10 as stated: after a successful cycle every indicator state, the score,
\* the signal and the driver list come from the new frame alone: what the
\* new frame does not determine shows nothing of an earlier result.
C10_ResultFullyReplaced ==
    last_step.op = "data_ok" =>
        /\ indicators_labels = Classify(current_df, [k \in IndicatorNames |-> NoLabel])
        /\ score_lbl = [set |-> TRUE, val |-> Score(current_df.row)]
        /\ sig_lbl = Resolve(Score(current_df.row), spins)
        /\ ExposedDrivers = {Reasons(current_df.row)}

\* C11 as stated: in every reachable state, also after a cycle whose compute,
\* scoring or chart step raised, the exposed frame, indicator states, score,
\* signal and chart all belong to one complete result: with no frame yet the
\* display is as constructed, and otherwise states, score, signal and chart
\* are those of the live frame, none left from another result or half done.
C11_ResultIsAtomic ==
    IF current_df = None
    THEN /\ indicators_labels = [k \in IndicatorNames |-> NoLabel]
         /\ score_lbl = [set |-> FALSE, val |-> 0]
         /\ sig_lbl = Status("READY", "")
         /\ chart = ChartBlank
    ELSE /\ indicators_labels = Classify(current_df, [k \in IndicatorNames |-> NoLabel])
         /\ score_lbl = [set |-> TRUE, val |-> Score(current_df.row)]
         /\ sig_lbl = Resolve(Score(current_df.row), spins)
         /\ chart.state = "drawn"
         /\ chart.df = current_df

====
